---- MODULE Spec2Model ----
(***************************************************************************)
(* Model of the adapter registry of open-fin-terminal                      *)
(* (packages/adapters/src/registry.ts): registration, the fallback chain,  *)
(* health probing with a freshness window, and health-aware selection;     *)
(* and of the token-bucket rate limiter of the adapters                    *)
(* (packages/adapters-oss/shared/rate-limiter.ts and cache.ts), of the     *)
(* TTL cache (MemoryCache in shared/cache.ts) and of the health probes of  *)
(* the concrete sources; of the data-fetch path of the SEC EDGAR and       *)
(* Treasury sources (cache, limiter, external request); of WorkerPool      *)
(* (packages/workers/src/worker-pool.ts); and of the reconnecting          *)
(* OpenBBWebSocketClient (packages/openbb-client/src/websocket.ts).        *)
(*                                                                         *)
(* getAdapter and checkHealth are async: each is split at its awaits, so   *)
(* the synchronous operations of other callers can run while one of them   *)
(* is suspended.                                                           *)
(***************************************************************************)
EXTENDS Integers, Sequences, FiniteSets, TLC

VARIABLES
  adapters,          \* Map<string, DataAdapter>: name -> adapter object
  fallbackChain,     \* string[]
  healthCache,       \* Map<string, HealthCheck>
  healthCheckTimer,  \* NoTimer, or the time at which the interval is next due
  now,               \* Date.now()
  probing,           \* names with a checkHealth call awaiting adapter.healthCheck()
  call,              \* the frame of the getAdapter call in flight (or finished)
  last,              \* the operation performed by the latest step, with its outcome
  tokens,            \* TokenBucketLimiter.tokens
  lastRefill,        \* TokenBucketLimiter.lastRefill
  timerRef,          \* TokenBucketLimiter.timerRef: the caller whose timeout it holds
  waiters,           \* per caller: its acquire call suspended in the wait, if any
  variant,           \* which TokenBucketLimiter class the bucket is an instance of
  granted,           \* tokens granted by completed acquire calls since new or reset()
  cache,             \* MemoryCache.cache: key -> CacheEntry
  shadow,            \* a second MemoryCache given the same calls except cleanup()
  fetch,             \* per source class: its healthCheck() call and what it returned
  bucket,            \* a TokenBucketLimiter of one caller, in ms and 1/1000 token
  dataFetch,         \* per source: its caches and its data-fetch call in flight
  pool,              \* a WorkerPool with its WorkerManager and the promises of execute
  client             \* an OpenBBWebSocketClient and the WebSockets it has opened

limiter == <<tokens, lastRefill, timerRef, waiters, variant, granted>>
store == <<cache, shadow>>
registry == <<adapters, fallbackChain, healthCache, healthCheckTimer, probing, call>>
others == <<bucket, dataFetch, pool, client>>

vars == <<adapters, fallbackChain, healthCache, healthCheckTimer, now, probing, call, last,
          tokens, lastRefill, timerRef, waiters, variant, granted, cache, shadow, fetch,
          bucket, dataFetch, pool, client>>

----------------------------------------------------------------------------
(* Bounds *)

MaxTime == 2       \* the clock runs 0..MaxTime
MaxChain == 2      \* longest argument list passed to setFallbackChain
MaxInFlight == 2   \* explicit checkHealth calls awaiting their probe at one time

(* Program values *)

healthCheckInterval == 2   \* options.healthCheckInterval, in clock ticks

Names == {"a", "b", "c"}
AdapterTypes == {"built-in", "optional"}
\* The adapter objects a caller registers: fixed types for "a" and "b", and two
\* different objects that both carry the name "c".
DataAdapters ==
  {[name |-> "a", type |-> "built-in"], [name |-> "b", type |-> "optional"],
   [name |-> "c", type |-> "built-in"], [name |-> "c", type |-> "optional"]}

\* The adapters and names used where getAdapter runs: one built-in, one optional.
SelectNames == {"a", "b"}
SelectAdapters ==
  {[name |-> "a", type |-> "built-in"], [name |-> "b", type |-> "optional"]}

None == "none"                       \* undefined
NoAdapter == [name |-> None, type |-> None]
NoTimer == -1
NoDate == -1                         \* a record without a lastChecked Date

HealthStatus == {"healthy", "degraded", "unavailable"}

\* What adapter.healthCheck() can do: resolve with a record of one of the
\* three statuses, resolve with a record that is not a HealthCheck
\* (TreasuryAdapter: status 'unhealthy', no lastChecked), or reject.
ProbeOutcomes == HealthStatus \cup {"unhealthy", "rejects"}

----------------------------------------------------------------------------
(* Map and array helpers *)

MapSet(m, k, v) == [x \in (DOMAIN m) \cup {k} |-> IF x = k THEN v ELSE m[x]]
MapDelete(m, k) == [x \in (DOMAIN m) \ {k} |-> m[x]]
EmptyMap == [x \in {} |-> None]

Includes(s, e) == \E i \in 1..Len(s) : s[i] = e
Filter(s, e) == SelectSeq(s, LAMBDA n : n # e)
Unshift(s, e) == <<e>> \o s

RECURSIVE SeqsUpTo(_, _)
SeqsUpTo(S, n) ==
  IF n = 0 THEN {<<>>}
  ELSE LET shorter == SeqsUpTo(S, n - 1)
       IN shorter \cup {Append(s, e) : s \in {t \in shorter : Len(t) = n - 1}, e \in S}

ChainArgs == SeqsUpTo(Names, MaxChain)
SelectChainArgs == SeqsUpTo(SelectNames, MaxChain)

----------------------------------------------------------------------------
(* The getAdapter frame *)

\* pc: "idle", "preferred" (awaiting isHealthy(adapter.name)), "chain"
\* (awaiting isHealthy(name) inside the loop), "done".
\* preferred, adapter, name: the parameter and the locals of getAdapter.
\* iter, aliased, idx: the array the for-of loop iterates, whether it is still
\* the object this.fallbackChain refers to, and the iterator's position.
\* awaiting: the name whose probe the call is suspended on; ready: the status
\* isHealthy has computed and the call has not yet consumed.
\* evals, stable: history of the call (the evaluations it made, and whether
\* the chain stayed as it was while the call ran).
IdleCall ==
  [pc |-> "idle", preferred |-> None, adapter |-> NoAdapter, name |-> None,
   iter |-> <<>>, aliased |-> FALSE, idx |-> 0,
   awaiting |-> None, ready |-> None,
   evals |-> <<>>, stable |-> TRUE, result |-> None, returned |-> NoAdapter]

Done(op, ret) == [op |-> op, ret |-> ret]

\* register / setFallbackChain / unregister / dispose seen from a suspended
\* getAdapter: `for (const name of this.fallbackChain)` iterates the array
\* object it started on. push/unshift mutate that object; filter, [...chain]
\* and [] assign a new one.
\* A finished call's frame lasts for the state in which its promise settles:
\* the awaiting caller takes the result and the frame is gone.
Settle == IF call.pc = "done" THEN IdleCall ELSE call

CallAfterMutate(newChain) ==
  IF call.pc \in {"preferred", "chain"}
  THEN [call EXCEPT !.iter = IF call.aliased THEN newChain ELSE @,
                    !.stable = @ /\ newChain = fallbackChain]
  ELSE Settle

CallAfterReplace(newChain) ==
  IF call.pc \in {"preferred", "chain"}
  THEN [call EXCEPT !.aliased = FALSE,
                    !.stable = @ /\ newChain = fallbackChain]
  ELSE Settle

----------------------------------------------------------------------------
(* Synchronous operations *)

\* Mutation of RegisterChain: every source is appended, whatever its type.
RegisterChainAlwaysAppend(chain, adapter) ==
  IF Includes(chain, adapter.name) THEN chain
  ELSE Append(chain, adapter.name)

RegisterChain(chain, adapter) ==
  IF Includes(chain, adapter.name) THEN chain
  ELSE IF adapter.type = "built-in" THEN Append(chain, adapter.name)
  ELSE Unshift(chain, adapter.name)

\* Mutation of Register: no duplicate check, the new object replaces the old.
RegisterNoDuplicateCheck(adapter) ==
  /\ adapters' = MapSet(adapters, adapter.name, adapter)
  /\ fallbackChain' = RegisterChain(fallbackChain, adapter)
  /\ call' = CallAfterMutate(fallbackChain')
  /\ last' = Done("register", "ok")
  /\ UNCHANGED <<healthCache, healthCheckTimer, now, probing, limiter, store, fetch, others>>

Register(adapter) ==
  IF adapter.name \in DOMAIN adapters
  THEN /\ last' = Done("register", "throw")
       /\ UNCHANGED <<adapters, fallbackChain, healthCache, healthCheckTimer, now, probing, limiter, store, fetch, others>>
       /\ call' = Settle
  ELSE /\ adapters' = MapSet(adapters, adapter.name, adapter)
       /\ fallbackChain' = RegisterChain(fallbackChain, adapter)
       /\ call' = CallAfterMutate(fallbackChain')
       /\ last' = Done("register", "ok")
       /\ UNCHANGED <<healthCache, healthCheckTimer, now, probing, limiter, store, fetch, others>>
\* Mutation of Unregister: the chain entry is left behind.
UnregisterKeepChain(name) ==
  LET removed == name \in DOMAIN adapters
  IN IF removed
     THEN /\ adapters' = MapDelete(adapters, name)
          /\ healthCache' = MapDelete(healthCache, name)
          /\ call' = Settle
          /\ last' = Done("unregister", "true")
          /\ UNCHANGED <<fallbackChain, healthCheckTimer, now, probing, limiter, store, fetch, others>>
     ELSE /\ last' = Done("unregister", "false")
          /\ UNCHANGED <<adapters, fallbackChain, healthCache, healthCheckTimer, now, probing, limiter, store, fetch, others>>
          /\ call' = Settle

\* Mutation of Unregister: the cached health record is left behind.
UnregisterKeepHealth(name) ==
  LET removed == name \in DOMAIN adapters
  IN IF removed
     THEN /\ adapters' = MapDelete(adapters, name)
          /\ fallbackChain' = Filter(fallbackChain, name)
          /\ call' = CallAfterReplace(fallbackChain')
          /\ last' = Done("unregister", "true")
          /\ UNCHANGED <<healthCache, healthCheckTimer, now, probing, limiter, store, fetch, others>>
     ELSE /\ last' = Done("unregister", "false")
          /\ UNCHANGED <<adapters, fallbackChain, healthCache, healthCheckTimer, now, probing, limiter, store, fetch, others>>
          /\ call' = Settle

Unregister(name) ==
  LET removed == name \in DOMAIN adapters
  IN IF removed
     THEN /\ adapters' = MapDelete(adapters, name)
          /\ healthCache' = MapDelete(healthCache, name)
          /\ fallbackChain' = Filter(fallbackChain, name)
          /\ call' = CallAfterReplace(fallbackChain')
          /\ last' = Done("unregister", "true")
          /\ UNCHANGED <<healthCheckTimer, now, probing, limiter, store, fetch, others>>
     ELSE /\ last' = Done("unregister", "false")
          /\ UNCHANGED <<adapters, fallbackChain, healthCache, healthCheckTimer, now, probing, limiter, store, fetch, others>>
          /\ call' = Settle

ChainValid(chain) == \A i \in 1..Len(chain) : chain[i] \in DOMAIN adapters

\* The names of chain before the first one that is not registered
RECURSIVE ValidPrefix(_)
ValidPrefix(chain) ==
  IF chain = <<>> \/ Head(chain) \notin DOMAIN adapters THEN <<>>
  ELSE <<Head(chain)>> \o ValidPrefix(Tail(chain))

\* Mutation of SetFallbackChain: names are applied as they are validated, so
\* a rejected list leaves its valid prefix behind.
SetFallbackChainPartial(chain) ==
  IF ChainValid(chain)
  THEN /\ fallbackChain' = chain
       /\ call' = CallAfterReplace(fallbackChain')
       /\ last' = Done("setFallbackChain", "ok")
       /\ UNCHANGED <<adapters, healthCache, healthCheckTimer, now, probing, limiter, store, fetch, others>>
  ELSE /\ fallbackChain' = ValidPrefix(chain)
       /\ call' = CallAfterReplace(fallbackChain')
       /\ last' = Done("setFallbackChain", "throw")
       /\ UNCHANGED <<adapters, healthCache, healthCheckTimer, now, probing, limiter, store, fetch, others>>
SetFallbackChain(chain) ==
  IF ChainValid(chain)
  THEN /\ fallbackChain' = chain
       /\ call' = CallAfterReplace(fallbackChain')
       /\ last' = Done("setFallbackChain", "ok")
       /\ UNCHANGED <<adapters, healthCache, healthCheckTimer, now, probing, limiter, store, fetch, others>>
  ELSE /\ last' = Done("setFallbackChain", "throw")
       /\ UNCHANGED <<adapters, fallbackChain, healthCache, healthCheckTimer, now, probing, limiter, store, fetch, others>>
       /\ call' = Settle

\* stopHealthChecks that forgets clearInterval
StopHealthChecksKeepsTimer ==
  /\ healthCheckTimer' = healthCheckTimer
  /\ last' = Done("stopHealthChecks", "ok")
  /\ UNCHANGED <<adapters, fallbackChain, healthCache, now, probing, limiter, store, fetch, others>>
  /\ call' = Settle

StopHealthChecks ==
  /\ healthCheckTimer' = NoTimer
  /\ last' = Done("stopHealthChecks", "ok")
  /\ UNCHANGED <<adapters, fallbackChain, healthCache, now, probing, limiter, store, fetch, others>>
  /\ call' = Settle

\* dispose without healthCache.clear()
DisposeKeepsHealth ==
  /\ healthCheckTimer' = NoTimer
  /\ adapters' = EmptyMap
  /\ healthCache' = healthCache
  /\ fallbackChain' = <<>>
  /\ call' = CallAfterReplace(fallbackChain')
  /\ last' = Done("dispose", "ok")
  /\ UNCHANGED <<now, probing, limiter, store, fetch, others>>

Dispose ==
  /\ healthCheckTimer' = NoTimer
  /\ adapters' = EmptyMap
  /\ healthCache' = EmptyMap
  /\ fallbackChain' = <<>>
  /\ call' = CallAfterReplace(fallbackChain')
  /\ last' = Done("dispose", "ok")
  /\ UNCHANGED <<now, probing, limiter, store, fetch, others>>

Tick ==
  /\ now < MaxTime
  /\ now' = now + 1
  /\ last' = Done("tick", "ok")
  /\ UNCHANGED <<adapters, fallbackChain, healthCache, healthCheckTimer, probing, limiter, store, fetch, others>>
  /\ call' = Settle

----------------------------------------------------------------------------
(* Health probes *)

ErrorMessage == "Network error"

\* The record checkHealth stores and returns for what adapter.healthCheck() did.
ProbeRecord(outcome) ==
  CASE outcome \in {"healthy", "degraded"} ->
         [status |-> outcome, lastChecked |-> now, error |-> None]
    [] outcome = "unavailable" ->
         [status |-> "unavailable", lastChecked |-> now, error |-> ErrorMessage]
    [] outcome = "unhealthy" ->
         [status |-> "unhealthy", lastChecked |-> NoDate, error |-> None]
    [] outcome = "rejects" ->
         [status |-> "unavailable", lastChecked |-> now, error |-> ErrorMessage]

\* checkHealth(name), called directly: up to `await adapter.healthCheck()`.
CheckHealthCall(name) ==
  IF name \notin DOMAIN adapters
  THEN /\ last' = Done("checkHealth", "undefined")
       /\ UNCHANGED <<adapters, fallbackChain, healthCache, healthCheckTimer, now, probing, limiter, store, fetch, others>>
       /\ call' = Settle
  ELSE /\ name \notin probing
       /\ Cardinality(probing) < MaxInFlight
       /\ probing' = probing \cup {name}
       /\ last' = Done("checkHealth", "pending")
       /\ UNCHANGED <<adapters, fallbackChain, healthCache, healthCheckTimer, now, limiter, store, fetch, others>>
       /\ call' = Settle

\* checkHealth without its catch block: a rejected probe is rethrown
CheckHealthReturnRethrows(name, outcome) ==
  /\ name \in probing
  /\ probing' = probing \ {name}
  /\ healthCache' = IF outcome = "rejects" THEN healthCache
                    ELSE MapSet(healthCache, name, ProbeRecord(outcome))
  /\ last' = Done("checkHealthReturn",
                  IF outcome = "rejects" THEN "throw" ELSE ProbeRecord(outcome).status)
  /\ UNCHANGED <<adapters, fallbackChain, healthCheckTimer, now, limiter, store, fetch, others>>
  /\ call' = Settle

\* checkHealth that keeps an earlier record instead of replacing it
CheckHealthReturnKeepsEarlier(name, outcome) ==
  /\ name \in probing
  /\ probing' = probing \ {name}
  /\ healthCache' = IF name \in DOMAIN healthCache THEN healthCache
                    ELSE MapSet(healthCache, name, ProbeRecord(outcome))
  /\ last' = Done("checkHealthReturn", ProbeRecord(outcome).status)
  /\ UNCHANGED <<adapters, fallbackChain, healthCheckTimer, now, limiter, store, fetch, others>>
  /\ call' = Settle

\* checkHealth(name), after the await: the probe settled with `outcome`.
CheckHealthReturn(name, outcome) ==
  /\ name \in probing
  /\ probing' = probing \ {name}
  /\ healthCache' = MapSet(healthCache, name, ProbeRecord(outcome))
  /\ last' = Done("checkHealthReturn", ProbeRecord(outcome).status)
  /\ UNCHANGED <<adapters, fallbackChain, healthCheckTimer, now, limiter, store, fetch, others>>
  /\ call' = Settle

\* The setInterval callback of startHealthChecks.
TimerFire ==
  /\ healthCheckTimer # NoTimer
  /\ now >= healthCheckTimer
  /\ healthCheckTimer' = now + healthCheckInterval
  /\ probing' = probing \cup DOMAIN adapters
  /\ last' = Done("timer", "ok")
  /\ UNCHANGED <<adapters, fallbackChain, healthCache, now, limiter, store, fetch, others>>
  /\ call' = Settle

----------------------------------------------------------------------------
(* getAdapter *)

\* Mutation of Selectable: a degraded source is not selectable.
SelectableHealthyOnly(status) == status = "healthy"

Selectable(status) == status = "healthy" \/ status = "degraded"

\* isHealthy that still trusts a record whose age equals healthCheckInterval
IsHealthyTrustsAtInterval(c, name) ==
  LET cached == healthCache[name]
      probe == IF name \in DOMAIN adapters
               THEN [c EXCEPT !.name = name, !.awaiting = name]
               ELSE [c EXCEPT !.name = name, !.ready = "undefined"]
  IN IF name \in DOMAIN healthCache
     THEN IF cached.lastChecked = NoDate
          THEN [c EXCEPT !.name = name, !.ready = "TypeError"]
          ELSE IF now - cached.lastChecked <= healthCheckInterval
               THEN [c EXCEPT !.name = name, !.ready = cached.status]
               ELSE probe
     ELSE probe

\* isHealthy(name) up to its first suspension: the status it answers with from
\* the cache, or the probe it starts through checkHealth.
IsHealthy(c, name) ==
  LET cached == healthCache[name]
      probe == IF name \in DOMAIN adapters
               THEN [c EXCEPT !.name = name, !.awaiting = name]
               ELSE [c EXCEPT !.name = name, !.ready = "undefined"]
  IN IF name \in DOMAIN healthCache
     THEN IF cached.lastChecked = NoDate
          THEN [c EXCEPT !.name = name, !.ready = "TypeError"]
          ELSE IF now - cached.lastChecked < healthCheckInterval
               THEN [c EXCEPT !.name = name, !.ready = cached.status]
               ELSE probe
     ELSE probe

Finish(c, result, returned) ==
  [c EXCEPT !.pc = "done", !.name = None, !.iter = <<>>, !.aliased = FALSE, !.idx = 0,
            !.awaiting = None, !.ready = None,
            !.result = result, !.returned = returned]

\* Mutation of LoopNext: an exhausted chain falls back to its first source.
LoopNextFallsBackToFirst(c) ==
  IF c.idx > Len(c.iter)
  THEN IF c.iter # <<>> /\ c.iter[1] \in DOMAIN adapters
       THEN Finish(c, "adapter", adapters[c.iter[1]])
       ELSE Finish(c, "UNAVAILABLE", NoAdapter)
  ELSE IsHealthy([c EXCEPT !.pc = "chain"], c.iter[c.idx])

\* The for-of loop at the point where the iterator is asked for its next name.
LoopNext(c) ==
  IF c.idx > Len(c.iter)
  THEN Finish(c, "UNAVAILABLE", NoAdapter)
  ELSE IsHealthy([c EXCEPT !.pc = "chain"], c.iter[c.idx])

\* Mutation of EnterLoop: the walk starts at the second chain entry.
EnterLoopSkipsFirst(c) ==
  LoopNext([c EXCEPT !.iter = fallbackChain, !.aliased = TRUE, !.idx = 2])

EnterLoop(c) ==
  LoopNext([c EXCEPT !.iter = fallbackChain, !.aliased = TRUE, !.idx = 1])

GetAdapterCall(preferredName) ==
  /\ call.pc \in {"idle", "done"}
  /\ LET c == [IdleCall EXCEPT !.preferred = preferredName]
     IN call' = IF preferredName # None /\ preferredName \in DOMAIN adapters
                THEN IsHealthy([c EXCEPT !.pc = "preferred",
                                         !.adapter = adapters[preferredName]],
                               preferredName)
                ELSE EnterLoop(c)
  /\ last' = Done("getAdapter", IF call'.pc = "done" THEN call'.result ELSE "pending")
  /\ UNCHANGED <<adapters, fallbackChain, healthCache, healthCheckTimer, now, probing, limiter, store, fetch, others>>

\* The probe that isHealthy started for the call settles: checkHealth stores
\* the record, isHealthy computes its answer.
GetAdapterProbeReturn(outcome) ==
  /\ call.awaiting # None
  /\ healthCache' = MapSet(healthCache, call.awaiting, ProbeRecord(outcome))
  /\ call' = [call EXCEPT !.awaiting = None, !.ready = ProbeRecord(outcome).status]
  /\ last' = Done("getAdapterProbe", ProbeRecord(outcome).status)
  /\ UNCHANGED <<adapters, fallbackChain, healthCheckTimer, now, probing, limiter, store, fetch, others>>

\* Mutation of GetAdapterResume: the preferred source is returned whatever
\* isHealthy answered.
GetAdapterResumePreferredWins ==
  /\ call.pc \in {"preferred", "chain"}
  /\ call.ready # None
  /\ LET c == [call EXCEPT !.ready = None,
                           !.evals = Append(@, [name |-> call.name,
                                                status |-> call.ready,
                                                stage |-> call.pc])]
     IN call' =
          IF call.ready = "TypeError" THEN Finish(c, "TypeError", NoAdapter)
          ELSE IF call.pc = "preferred"
          THEN Finish(c, "adapter", call.adapter)
          ELSE IF Selectable(call.ready) /\ call.name \in DOMAIN adapters
               THEN Finish(c, "adapter", adapters[call.name])
               ELSE LoopNext([c EXCEPT !.idx = @ + 1])
  /\ last' = Done("getAdapter", IF call'.pc = "done" THEN call'.result ELSE "pending")
  /\ UNCHANGED <<adapters, fallbackChain, healthCache, healthCheckTimer, now, probing, limiter, store, fetch, others>>

\* getAdapter resumes with the answer of isHealthy.
GetAdapterResume ==
  /\ call.pc \in {"preferred", "chain"}
  /\ call.ready # None
  /\ LET c == [call EXCEPT !.ready = None,
                           !.evals = Append(@, [name |-> call.name,
                                                status |-> call.ready,
                                                stage |-> call.pc])]
     IN call' =
          IF call.ready = "TypeError" THEN Finish(c, "TypeError", NoAdapter)
          ELSE IF call.pc = "preferred"
          THEN IF Selectable(call.ready)
               THEN Finish(c, "adapter", call.adapter)
               ELSE EnterLoop(c)
          ELSE IF Selectable(call.ready) /\ call.name \in DOMAIN adapters
               THEN Finish(c, "adapter", adapters[call.name])
               ELSE LoopNext([c EXCEPT !.idx = @ + 1])
  /\ last' = Done("getAdapter", IF call'.pc = "done" THEN call'.result ELSE "pending")
  /\ UNCHANGED <<adapters, fallbackChain, healthCache, healthCheckTimer, now, probing, limiter, store, fetch, others>>
----------------------------------------------------------------------------
(* The token-bucket limiter. One clock tick is the time in which one token *)
(* is refilled (1000 / tokensPerSecond ms), so token counts stay integers. *)

Capacity == 2                 \* capacity, in tokens
MaxAcquire == Capacity + 1    \* largest n passed to acquire and isReady
Callers == {"p", "q"}         \* callers that may each have an acquire in flight
Variants == {"rate-limiter.ts", "cache.ts"}

NoWait == [pc |-> "idle", n |-> 0, due |-> 0, armed |-> FALSE]

Min(x, y) == IF x <= y THEN x ELSE y

\* refillTokens without Math.min
RefillTokensUncapped == tokens + (now - lastRefill)

\* refillTokens: the token count it leaves (lastRefill becomes now)
RefillTokens == Min(Capacity, tokens + (now - lastRefill))

\* acquire that deducts one token whatever n is
AcquireDeductsOne(c, n) ==
  /\ waiters[c].pc = "idle"
  /\ lastRefill' = now
  /\ IF RefillTokens >= n
     THEN /\ tokens' = RefillTokens - 1
          /\ granted' = granted + n
          /\ last' = Done("acquire", "ok")
          /\ UNCHANGED <<timerRef, waiters>>
     ELSE /\ tokens' = RefillTokens
          /\ waiters' = [waiters EXCEPT ![c] =
                           [pc |-> "waiting", n |-> n,
                            due |-> now + (n - RefillTokens), armed |-> TRUE]]
          /\ timerRef' = IF variant = "cache.ts" THEN c ELSE timerRef
          /\ last' = Done("acquire", "pending")
          /\ UNCHANGED granted
  /\ UNCHANGED <<registry, store, fetch, others, now, variant>>

\* acquire(n) by caller c, up to its return or its await of the timeout
Acquire(c, n) ==
  /\ waiters[c].pc = "idle"
  /\ lastRefill' = now
  /\ IF RefillTokens >= n
     THEN /\ tokens' = RefillTokens - n
          /\ granted' = granted + n
          /\ last' = Done("acquire", "ok")
          /\ UNCHANGED <<timerRef, waiters>>
     ELSE /\ tokens' = RefillTokens
          /\ waiters' = [waiters EXCEPT ![c] =
                           [pc |-> "waiting", n |-> n,
                            due |-> now + (n - RefillTokens), armed |-> TRUE]]
          /\ timerRef' = IF variant = "cache.ts" THEN c ELSE timerRef
          /\ last' = Done("acquire", "pending")
          /\ UNCHANGED granted
  /\ UNCHANGED <<registry, store, fetch, others, now, variant>>

\* the timeout of caller c's wait expires: the promise resolves and acquire
\* runs to its end
AcquireResume(c) ==
  /\ waiters[c].pc = "waiting"
  /\ waiters[c].armed
  /\ now >= waiters[c].due
  /\ timerRef' = IF variant = "cache.ts" THEN None ELSE timerRef
  /\ tokens' = RefillTokens - waiters[c].n
  /\ lastRefill' = now
  /\ granted' = granted + waiters[c].n
  /\ waiters' = [waiters EXCEPT ![c] = NoWait]
  /\ last' = Done("acquireResume", "ok")
  /\ UNCHANGED <<registry, store, fetch, others, now, variant>>

\* isReady whose refill moves lastRefill without adding the tokens
IsReadyDropsRefill(n) ==
  /\ tokens' = tokens
  /\ lastRefill' = now
  /\ last' = Done("isReady", IF RefillTokens >= n THEN "true" ELSE "false")
  /\ UNCHANGED <<registry, store, fetch, others, now, timerRef, waiters, variant, granted>>

IsReady(n) ==
  /\ tokens' = RefillTokens
  /\ lastRefill' = now
  /\ last' = Done("isReady", IF RefillTokens >= n THEN "true" ELSE "false")
  /\ UNCHANGED <<registry, store, fetch, others, now, timerRef, waiters, variant, granted>>

\* reset(); in cache.ts it also clears the timeout timerRef holds
Reset ==
  /\ tokens' = Capacity
  /\ lastRefill' = now
  /\ IF variant = "cache.ts" /\ timerRef # None
     THEN /\ waiters' = [waiters EXCEPT ![timerRef].armed = FALSE]
          /\ timerRef' = None
     ELSE UNCHANGED <<timerRef, waiters>>
  /\ granted' = 0
  /\ last' = Done("reset", "ok")
  /\ UNCHANGED <<registry, store, fetch, others, now, variant>>

----------------------------------------------------------------------------
(* The arithmetic of acquire for one caller. Date.now() counts whole       *)
(* milliseconds; the token count is kept in thousandths of a token, so     *)
(* that (elapsed / 1000) * tokensPerSecond is the integer elapsed * rate.  *)

MaxElapsedMs == 3      \* longest time between two calls of the caller, in ms
MaxLateMs == 1         \* how long after its delay a timeout may fire, in ms
MaxCalls == 4          \* acquire calls made on one bucket
DefaultRate == 10      \* tokensPerSecond of every bucket the sources create
Rates == {3, DefaultRate}

Milli(n) == n * 1000   \* n tokens, in thousandths

NoBucket == [pc |-> "none", tokensPerSecond |-> 0, tokens |-> 0,
             n |-> 0, waitMs |-> 0, calls |-> 0]

\* refillTokens(), elapsed ms after lastRefill; capacity is tokensPerSecond
BucketRefill(b, elapsed) ==
  Min(Milli(b.tokensPerSecond), b.tokens + elapsed * b.tokensPerSecond)

\* the delay of setTimeout(resolve, waitMs): timers take whole milliseconds
\* and drop the fraction of (tokensNeeded / tokensPerSecond) * 1000
TimeoutDelay(tokensNeeded, tokensPerSecond) == tokensNeeded \div tokensPerSecond

\* new TokenBucketLimiter(tokensPerSecond)
NewBucket(tokensPerSecond) ==
  /\ bucket.pc = "none"
  /\ bucket' = [NoBucket EXCEPT !.pc = "idle", !.tokensPerSecond = tokensPerSecond,
                                !.tokens = Milli(tokensPerSecond)]
  /\ last' = Done("newBucket", "ok")
  /\ UNCHANGED <<registry, limiter, store, fetch, now, dataFetch, pool, client>>

\* acquire(n), elapsed ms after the caller's previous call returned
BucketAcquire(n, elapsed) ==
  /\ bucket.pc = "idle"
  /\ bucket.calls < MaxCalls
  /\ n <= bucket.tokensPerSecond
  /\ LET refilled == BucketRefill(bucket, elapsed)
     IN IF refilled >= Milli(n)
        THEN /\ bucket' = [bucket EXCEPT !.tokens = refilled - Milli(n),
                                         !.calls = @ + 1]
             /\ last' = Done("bucketAcquire", "ok")
        ELSE /\ bucket' = [bucket EXCEPT
                             !.pc = "waiting", !.tokens = refilled, !.n = n,
                             !.waitMs = TimeoutDelay(Milli(n) - refilled,
                                                     bucket.tokensPerSecond),
                             !.calls = @ + 1]
             /\ last' = Done("bucketAcquire", "pending")
  /\ UNCHANGED <<registry, limiter, store, fetch, now, dataFetch, pool, client>>

\* the timeout fires late ms after its delay and acquire runs to its end
BucketTimeout(late) ==
  /\ bucket.pc = "waiting"
  /\ bucket' = [bucket EXCEPT
                  !.pc = "idle",
                  !.tokens = BucketRefill(bucket, bucket.waitMs + late) - Milli(bucket.n),
                  !.n = 0, !.waitMs = 0]
  /\ last' = Done("bucketTimeout", "ok")
  /\ UNCHANGED <<registry, limiter, store, fetch, now, dataFetch, pool, client>>

----------------------------------------------------------------------------
(* The data-fetch operations of the sources that hold a limiter and a      *)
(* cache: SECEdgarAdapter.getFundamentals (with its CIKLookup) and         *)
(* TreasuryAdapter.getYieldCurve / getHistoricalYields, for one cache key. *)
(* acquired and requests count the limiter tokens taken and the external   *)
(* requests issued by the call in flight.                                  *)

DataSources == {"SECEdgarAdapter", "TreasuryAdapter"}
EntryStates == {"absent", "fresh", "expired"}

NewSource == [pc |-> "idle", entry |-> "absent", cik |-> "absent",
              mappingCache |-> FALSE, consulted |-> FALSE, hit |-> FALSE,
              acquired |-> 0, requests |-> 0, result |-> None]

outsideDataFetch == <<registry, limiter, store, fetch, now, bucket, pool, client>>

\* cache.get(key): a fresh entry is returned, an expired one is deleted
CacheGet(entry) == IF entry = "fresh" THEN "fresh" ELSE "absent"

End(d, result) == [d EXCEPT !.pc = "done", !.result = result]

\* cikLookup.getCIK from a loaded mappingCache: the ticker is known or not
MappingLookup(d, known) ==
  IF known THEN [d EXCEPT !.cik = "fresh", !.pc = "acquire"]
  ELSE End(d, "INVALID_REQUEST")

\* getFundamentals / getYieldCurve up to the first await: the cache is
\* consulted and a hit is returned
DataFetchCall(s) ==
  /\ dataFetch[s].pc \in {"idle", "done"}
  /\ LET d == [dataFetch[s] EXCEPT !.consulted = TRUE, !.hit = FALSE, !.acquired = 0,
                                   !.requests = 0, !.result = None,
                                   !.entry = CacheGet(@)]
     IN dataFetch' = [dataFetch EXCEPT ![s] =
          IF d.entry = "fresh" THEN End([d EXCEPT !.hit = TRUE], "cached")
          ELSE IF s = "SECEdgarAdapter" THEN [d EXCEPT !.pc = "getCIK"]
          ELSE [d EXCEPT !.pc = "acquire"]]
  /\ last' = Done("dataFetch", IF dataFetch'[s].pc = "done" THEN "cached" ELSE "pending")
  /\ UNCHANGED outsideDataFetch

\* CIKLookup.getCIK up to its first await: its cache, then mappingCache, then
\* loadTickerMappings, which issues `fetch(SEC_TICKER_JSON_URL)`
GetCIK(known) ==
  LET s == "SECEdgarAdapter"
      d == [dataFetch[s] EXCEPT !.cik = CacheGet(@)]
  IN /\ dataFetch[s].pc = "getCIK"
     /\ dataFetch' = [dataFetch EXCEPT ![s] =
          IF d.cik = "fresh" THEN [d EXCEPT !.pc = "acquire"]
          ELSE IF d.mappingCache THEN MappingLookup(d, known)
          ELSE [d EXCEPT !.pc = "loadTickerMappings", !.requests = @ + 1]]
     /\ last' = Done("getCIK", dataFetch'[s].pc)
     /\ UNCHANGED outsideDataFetch

\* the ticker file arrives (or not) and getCIK runs to its end
LoadTickerMappingsReturn(response, known) ==
  LET s == "SECEdgarAdapter"
      d == dataFetch[s]
  IN /\ d.pc = "loadTickerMappings"
     /\ dataFetch' = [dataFetch EXCEPT ![s] =
          IF response = "ok"
          THEN MappingLookup([d EXCEPT !.mappingCache = TRUE], known)
          ELSE End(d, "UNKNOWN")]
     /\ last' = Done("loadTickerMappings", response)
     /\ UNCHANGED outsideDataFetch

\* `await this.rateLimiter.acquire()` (waitFor(1) in SECEdgarAdapter)
\* completes and the request is issued
AcquireAndRequest(s) ==
  /\ dataFetch[s].pc = "acquire"
  /\ dataFetch' = [dataFetch EXCEPT ![s] =
       [@ EXCEPT !.pc = "request", !.acquired = @ + 1, !.requests = @ + 1]]
  /\ last' = Done("acquireAndRequest", "pending")
  /\ UNCHANGED outsideDataFetch

\* the response arrives: the parsed result is cached, or the call throws
RequestReturn(s, response) ==
  /\ dataFetch[s].pc = "request"
  /\ dataFetch' = [dataFetch EXCEPT ![s] =
       IF response = "ok" THEN End([@ EXCEPT !.entry = "fresh"], "data")
       ELSE End(@, IF s = "SECEdgarAdapter" THEN "UNKNOWN" ELSE "UNAVAILABLE")]
  /\ last' = Done("requestReturn", response)
  /\ UNCHANGED outsideDataFetch

\* time passes beyond the TTL of the source's cache entries
EntriesExpire(s) ==
  /\ dataFetch[s].pc \in {"idle", "done"}
  /\ \/ dataFetch[s].entry = "fresh"
     \/ dataFetch[s].cik = "fresh"
  /\ dataFetch' = [dataFetch EXCEPT ![s] =
       [@ EXCEPT !.entry = IF @ = "fresh" THEN "expired" ELSE @,
                 !.cik = IF @ = "fresh" THEN "expired" ELSE @]]
  /\ last' = Done("expire", "ok")
  /\ UNCHANGED outsideDataFetch

----------------------------------------------------------------------------
(* WorkerPool. Workers and tasks are numbered; a task is the promise that  *)
(* execute() returned for it. status is the WorkerManager's metadata, kept *)
(* for the workers it has not terminated.                                  *)

MaxWorkers == 2        \* largest maxWorkers a pool is configured with
MaxTasks == 3          \* tasks submitted to one pool
Workers == 1..(MaxWorkers + 1)
Tasks == 1..MaxTasks
NoTask == 0

NoPool == [pc |-> "none", minWorkers |-> 0, maxWorkers |-> 0,
           workers |-> <<>>, status |-> EmptyMap, idleTimeouts |-> {},
           queue |-> <<>>, running |-> [w \in Workers |-> NoTask],
           submitted |-> 0, promise |-> [t \in Tasks |-> "none"]]

outsidePool == <<registry, limiter, store, fetch, now, bucket, dataFetch, client>>

Range(seq) == {seq[i] : i \in 1..Len(seq)}

\* workerFactory(): a worker that runs no task and is not in the pool
FreshWorker(p) ==
  CHOOSE w \in Workers : w \notin Range(p.workers) /\ p.running[w] = NoTask

\* createWorker(): manager.spawn registers it as idle, workers.push
CreateWorker(p) ==
  LET w == FreshWorker(p)
  IN [p EXCEPT !.workers = Append(@, w), !.status = MapSet(@, w, "idle")]

\* the first worker of the array that is healthy and idle, or 0
FirstIdle(p) ==
  LET idle == {i \in 1..Len(p.workers) :
                 /\ p.workers[i] \in DOMAIN p.status
                 /\ p.status[p.workers[i]] = "idle"}
  IN IF idle = {} THEN 0
     ELSE p.workers[CHOOSE i \in idle : \A j \in idle : i <= j]

\* manager.updateStatus: nothing happens for a worker without metadata
UpdateStatus(p, w, status) ==
  IF w \in DOMAIN p.status THEN [p EXCEPT !.status = MapSet(@, w, status)] ELSE p

\* executeTask up to `await task(worker)`
ExecuteTask(p, w, t) ==
  [UpdateStatus(p, w, "busy") EXCEPT !.running[w] = t]

\* new WorkerPool(workerFactory, { minWorkers, maxWorkers })
RECURSIVE CreateWorkers(_, _)
CreateWorkers(p, n) == IF n = 0 THEN p ELSE CreateWorkers(CreateWorker(p), n - 1)

NewWorkerPool(minWorkers, maxWorkers) ==
  /\ pool.pc = "none"
  /\ minWorkers <= maxWorkers
  /\ pool' = CreateWorkers([NoPool EXCEPT !.pc = "live", !.minWorkers = minWorkers,
                                          !.maxWorkers = maxWorkers], minWorkers)
  /\ last' = Done("newWorkerPool", "ok")
  /\ UNCHANGED outsidePool

\* execute(task): getAvailableWorker, then executeTask or the queue
Execute ==
  /\ pool.pc = "live"
  /\ pool.submitted < MaxTasks
  /\ LET t == pool.submitted + 1
         p == [pool EXCEPT !.submitted = t, !.promise[t] = "pending"]
         w == FirstIdle(p)
     IN pool' =
          IF w # 0
          THEN ExecuteTask([p EXCEPT !.idleTimeouts = @ \ {w}], w, t)
          ELSE IF Len(p.workers) < p.maxWorkers
          THEN ExecuteTask(CreateWorker(p), FreshWorker(p), t)
          ELSE [p EXCEPT !.queue = Append(@, t)]
  /\ last' = Done("execute", "pending")
  /\ UNCHANGED outsidePool

\* the task on worker w completes: returnWorker(w), and the promise settles
TaskCompletes(w, outcome) ==
  /\ pool.running[w] # NoTask
  /\ LET t == pool.running[w]
         p == [UpdateStatus(pool, w, "idle") EXCEPT !.running[w] = NoTask,
                                                  !.promise[t] = outcome]
     IN pool' =
          IF p.queue # <<>>
          THEN ExecuteTask([p EXCEPT !.queue = Tail(@)], w, Head(p.queue))
          ELSE IF Len(p.workers) > p.minWorkers
          THEN [p EXCEPT !.idleTimeouts = @ \cup {w}]
          ELSE p
  /\ last' = Done("taskCompletes", outcome)
  /\ UNCHANGED outsidePool

\* the idle timeout of worker w fires: removeWorker(w)
IdleTimeout(w) ==
  /\ w \in pool.idleTimeouts
  /\ pool' = IF w \in Range(pool.workers)
             THEN [pool EXCEPT !.workers = SelectSeq(@, LAMBDA x : x # w),
                               !.idleTimeouts = @ \ {w},
                               !.status = MapDelete(@, w)]
             ELSE [pool EXCEPT !.idleTimeouts = @ \ {w}]
  /\ last' = Done("idleTimeout", "ok")
  /\ UNCHANGED outsidePool

\* an 'error' event of worker w: manager.handleError
WorkerError(w) ==
  /\ w \in DOMAIN pool.status
  /\ pool.status[w] # "error"
  /\ pool' = [pool EXCEPT !.status = MapSet(@, w, "error")]
  /\ last' = Done("workerError", "ok")
  /\ UNCHANGED outsidePool

\* destroy(); the pool is not used afterwards
Destroy ==
  /\ pool.pc = "live"
  /\ pool' = [pool EXCEPT !.pc = "destroyed", !.idleTimeouts = {},
                          !.status = EmptyMap, !.workers = <<>>, !.queue = <<>>]
  /\ last' = Done("destroy", "ok")
  /\ UNCHANGED outsidePool

----------------------------------------------------------------------------
(* OpenBBWebSocketClient. Every `new WebSocket` is a numbered socket with  *)
(* the client's handlers attached; ws is the socket the client refers to.  *)

MaxSockets == 3                \* WebSockets one client opens
maxReconnectAttempts == 5
Sockets == 1..MaxSockets
NoSocket == 0
Endpoints == {"quotes"}

\* afterClose: close() has been called and subscribe not since
NewClient == [ws |-> NoSocket, readyState |-> [i \in Sockets |-> "none"],
              created |-> 0, reconnectAttempts |-> 0, timers |-> 0,
              subscriptions |-> {}, awaiting |-> NoSocket, afterClose |-> FALSE]

outsideClient == <<registry, limiter, store, fetch, now, bucket, dataFetch, pool>>

\* connect(): `this.ws = new WebSocket(this.baseUrl)`
Connect(c) ==
  [c EXCEPT !.created = @ + 1, !.ws = c.created + 1,
            !.readyState[c.created + 1] = "connecting"]

IsOpen(c) == c.ws # NoSocket /\ c.readyState[c.ws] = "open"

\* subscribe(endpoint, ...) up to its return or to `await this.connect()`
Subscribe(endpoint) ==
  /\ client.awaiting = NoSocket
  /\ LET c == [client EXCEPT !.afterClose = FALSE]
     IN IF IsOpen(c)
        THEN /\ client' = [c EXCEPT !.subscriptions = @ \cup {endpoint}]
             /\ last' = Done("subscribe", "ok")
        ELSE /\ c.created < MaxSockets
             /\ client' = [Connect(c) EXCEPT !.awaiting = c.created + 1]
             /\ last' = Done("subscribe", "pending")
  /\ UNCHANGED outsideClient

\* onopen of socket i; a subscribe awaiting it resumes, and its
\* sendSubscribe throws unless this.ws is open
SocketOpens(i, endpoint) ==
  /\ client.readyState[i] = "connecting"
  /\ LET c == [client EXCEPT !.readyState[i] = "open", !.reconnectAttempts = 0]
     IN IF c.awaiting = i
        THEN /\ client' = [c EXCEPT !.awaiting = NoSocket,
                                    !.subscriptions = @ \cup {endpoint}]
             /\ last' = Done("subscribeResume", IF IsOpen(c) THEN "ok" ELSE "throw")
        ELSE /\ client' = c
             /\ last' = Done("onopen", "ok")
  /\ UNCHANGED outsideClient

\* handleDisconnect() up to its await of the reconnection delay
HandleDisconnect(c) ==
  IF c.reconnectAttempts < maxReconnectAttempts
  THEN [c EXCEPT !.reconnectAttempts = @ + 1, !.timers = @ + 1]
  ELSE c

\* socket i closes (the server or the network ends it, a connection attempt
\* fails, or a close() call completes): onerror rejects the connect promise
\* of a socket that never opened, onclose runs handleDisconnect
SocketCloses(i) ==
  /\ client.readyState[i] \in {"connecting", "open", "closing"}
  /\ client' = HandleDisconnect(
                 [client EXCEPT !.readyState[i] = "closed",
                                !.awaiting = IF @ = i THEN NoSocket ELSE @])
  /\ last' = Done("onclose", IF client'.timers > client.timers THEN "reconnecting" ELSE "max")
  /\ UNCHANGED outsideClient

\* the reconnection delay is over: handleDisconnect calls connect()
ReconnectTimer ==
  /\ client.timers > 0
  /\ client.created < MaxSockets
  /\ client' = Connect([client EXCEPT !.timers = @ - 1])
  /\ last' = Done("reconnect", "ok")
  /\ UNCHANGED outsideClient

\* close()
Close ==
  /\ client' = [client EXCEPT
                  !.readyState = IF client.ws # NoSocket
                                    /\ @[client.ws] \in {"connecting", "open"}
                                 THEN [@ EXCEPT ![client.ws] = "closing"]
                                 ELSE @,
                  !.ws = NoSocket, !.subscriptions = {}, !.afterClose = TRUE]
  /\ last' = Done("close", "ok")
  /\ UNCHANGED outsideClient

----------------------------------------------------------------------------
(* The TTL cache. Every call is made on `cache` and on `shadow` alike,     *)
(* except cleanup(), which only `cache` receives.                          *)

MaxTtl == 2                       \* longest ttlMs passed to set, in clock ticks
defaultTtlMs == 1                 \* the cache's default TTL, in clock ticks
Keys == {"k1", "k2"}
Values == {"v1", "v2"}
NoTtl == MaxTtl + 1               \* set called without ttlMs
Ttls == (0..MaxTtl) \cup {NoTtl}
outsideStore == <<registry, limiter, fetch, others, now>>

\* Date.now() > entry.expiresAt
Expired(m, key) == now > m[key].expiresAt

\* what get(key) returns on the map m
GetResult(m, key) ==
  IF key \notin DOMAIN m THEN "null"
  ELSE IF Expired(m, key) THEN "null" ELSE m[key].value

\* what has(key) returns on the map m
HasResult(m, key) ==
  IF key \notin DOMAIN m THEN "false"
  ELSE IF Expired(m, key) THEN "false" ELSE "true"

\* the map after get(key) or has(key): an expired entry is deleted
Evict(m, key) ==
  IF key \in DOMAIN m /\ Expired(m, key) THEN MapDelete(m, key) ELSE m

\* get that returns the entry's value whatever its expiry
GetIgnoresExpiry(key) ==
  /\ cache' = cache
  /\ shadow' = shadow
  /\ last' = Done("get", IF key \in DOMAIN cache THEN cache[key].value ELSE "null")
  /\ UNCHANGED outsideStore

Get(key) ==
  /\ cache' = Evict(cache, key)
  /\ shadow' = Evict(shadow, key)
  /\ last' = Done("get", GetResult(cache, key))
  /\ UNCHANGED outsideStore

\* ttlMs ?? this.defaultTtlMs
TtlOf(ttlMs) == IF ttlMs = NoTtl THEN defaultTtlMs ELSE ttlMs

Entry(value, ttlMs) == [value |-> value, expiresAt |-> now + TtlOf(ttlMs)]

\* set that keeps the expiry of an entry it overwrites
SetKeepsExpiry(key, value, ttlMs) ==
  /\ cache' = MapSet(cache, key,
                     IF key \in DOMAIN cache
                     THEN [value |-> value, expiresAt |-> cache[key].expiresAt]
                     ELSE Entry(value, ttlMs))
  /\ shadow' = MapSet(shadow, key,
                      IF key \in DOMAIN shadow
                      THEN [value |-> value, expiresAt |-> shadow[key].expiresAt]
                      ELSE Entry(value, ttlMs))
  /\ last' = Done("set", "ok")
  /\ UNCHANGED outsideStore

Set(key, value, ttlMs) ==
  /\ cache' = MapSet(cache, key, Entry(value, ttlMs))
  /\ shadow' = MapSet(shadow, key, Entry(value, ttlMs))
  /\ last' = Done("set", "ok")
  /\ UNCHANGED outsideStore

Has(key) ==
  /\ cache' = Evict(cache, key)
  /\ shadow' = Evict(shadow, key)
  /\ last' = Done("has", HasResult(cache, key))
  /\ UNCHANGED outsideStore

\* delete that answers as has(key) would: false for an expired entry
DeleteAnswersLikeHas(key) ==
  /\ cache' = MapDelete(cache, key)
  /\ shadow' = MapDelete(shadow, key)
  /\ last' = Done("delete", HasResult(cache, key))
  /\ UNCHANGED outsideStore

Delete(key) ==
  /\ cache' = MapDelete(cache, key)
  /\ shadow' = MapDelete(shadow, key)
  /\ last' = Done("delete", IF key \in DOMAIN cache THEN "true" ELSE "false")
  /\ UNCHANGED outsideStore

Clear ==
  /\ cache' = EmptyMap
  /\ shadow' = EmptyMap
  /\ last' = Done("clear", "ok")
  /\ UNCHANGED outsideStore

\* size that counts the unexpired entries only
SizeLive == Cardinality({key \in DOMAIN cache : ~Expired(cache, key)})

Size == Cardinality(DOMAIN cache)

\* cleanup that also removes the entries expiring at this very time
CleanupAtExpiry ==
  /\ cache' = [key \in {k \in DOMAIN cache : ~(now >= cache[k].expiresAt)} |-> cache[key]]
  /\ last' = Done("cleanup", "ok")
  /\ UNCHANGED <<outsideStore, shadow>>

\* cleanup that empties the cache as soon as one entry has expired
CleanupClearsAll ==
  /\ cache' = IF \E k \in DOMAIN cache : Expired(cache, k) THEN EmptyMap ELSE cache
  /\ last' = Done("cleanup", "ok")
  /\ UNCHANGED <<outsideStore, shadow>>

Cleanup ==
  /\ cache' = [key \in {k \in DOMAIN cache : ~Expired(cache, k)} |-> cache[key]]
  /\ last' = Done("cleanup", "ok")
  /\ UNCHANGED <<outsideStore, shadow>>

----------------------------------------------------------------------------
(* healthCheck() of the concrete sources. checkHealth awaits it without a  *)
(* timeout of its own, so the registry's call completes when it does.      *)

\* TreasuryAdapter is the class at adapter.ts line 15, TreasuryAdapterPartial
\* the class of the same name at line 280 (implements Partial<DataAdapter>).
SourceClasses ==
  {"SECEdgarAdapter", "YahooFinanceAdapter", "TreasuryAdapter", "TreasuryAdapterPartial"}

\* fetch resolves with response.ok, resolves with a non-OK status, or rejects
Responses == {"ok", "not-ok", "rejects"}

HEALTH_CHECK_TIMEOUT == 1   \* in clock ticks

NoRecord == [status |-> None, lastChecked |-> NoDate, error |-> None]
NoFetch == [pc |-> "idle", started |-> 0, abort |-> FALSE,
            response |-> None, record |-> NoRecord]

\* the classes whose healthCheck arms setTimeout(() => controller.abort(), ...)
HasAbortTimer(class) == class \in {"SECEdgarAdapter", "YahooFinanceAdapter"}

\* the record healthCheck() of the class returns for what fetch did
HealthCheckRecord(class, response) ==
  CASE class \in {"SECEdgarAdapter", "YahooFinanceAdapter"} ->
         CASE response = "ok" ->
                [status |-> "healthy", lastChecked |-> now, error |-> None]
           [] response = "not-ok" ->
                [status |-> "degraded", lastChecked |-> now, error |-> "HTTP status"]
           [] OTHER ->
                [status |-> "unavailable", lastChecked |-> now, error |-> ErrorMessage]
    [] class = "TreasuryAdapter" ->
         [status |-> IF response = "ok" THEN "healthy" ELSE "unhealthy",
          lastChecked |-> NoDate, error |-> None]
    [] class = "TreasuryAdapterPartial" ->
         CASE response = "ok" ->
                [status |-> "healthy", lastChecked |-> now, error |-> None]
           [] response = "not-ok" ->
                [status |-> "unhealthy", lastChecked |-> now, error |-> "Treasury API error"]
           [] OTHER ->
                [status |-> "unhealthy", lastChecked |-> now, error |-> ErrorMessage]

outsideFetch == <<registry, limiter, store, others, now>>

\* healthCheck() up to `await fetch(...)`
HealthCheckCall(class) ==
  /\ fetch[class].pc = "idle"
  /\ fetch' = [fetch EXCEPT ![class] =
                 [@ EXCEPT !.pc = "pending", !.started = now,
                           !.abort = HasAbortTimer(class)]]
  /\ last' = Done("healthCheck", "pending")
  /\ UNCHANGED outsideFetch

\* fetch settles and healthCheck() returns
HealthCheckReturn(class, response) ==
  /\ fetch[class].pc = "pending"
  /\ fetch' = [fetch EXCEPT ![class] =
                 [NoFetch EXCEPT !.response = response,
                                 !.record = HealthCheckRecord(class, response)]]
  /\ last' = Done("healthCheckReturn", HealthCheckRecord(class, response).status)
  /\ UNCHANGED outsideFetch

\* the abort timer expires: fetch rejects with the AbortError, which the
\* catch block of healthCheck() turns into a record
HealthCheckAbort(class) ==
  /\ fetch[class].pc = "pending"
  /\ fetch[class].abort
  /\ now >= fetch[class].started + HEALTH_CHECK_TIMEOUT
  /\ fetch' = [fetch EXCEPT ![class] =
                 [NoFetch EXCEPT !.response = "abort",
                                 !.record = HealthCheckRecord(class, "abort")]]
  /\ last' = Done("healthCheckAbort", HealthCheckRecord(class, "abort").status)
  /\ UNCHANGED outsideFetch

----------------------------------------------------------------------------

Init ==
  /\ adapters = EmptyMap
  /\ fallbackChain = <<>>
  /\ healthCache = EmptyMap
  /\ healthCheckTimer \in {NoTimer, healthCheckInterval}
  /\ now = 0
  /\ probing = {}
  /\ call = IdleCall
  /\ last = Done("new", "ok")
  /\ tokens = Capacity
  /\ lastRefill = 0
  /\ timerRef = None
  /\ waiters = [c \in Callers |-> NoWait]
  /\ variant \in Variants
  /\ granted = 0
  /\ cache = EmptyMap
  /\ shadow = EmptyMap
  /\ fetch = [s \in SourceClasses |-> NoFetch]
  /\ bucket = NoBucket
  /\ dataFetch = [s \in DataSources |-> NewSource]
  /\ pool = NoPool
  /\ client = NewClient

\* The whole registry, over the adapters "a" (built-in) and "b" (optional).
Next ==
  \/ \E adapter \in SelectAdapters : Register(adapter)
  \/ \E name \in SelectNames : Unregister(name)
  \/ \E chain \in SelectChainArgs : SetFallbackChain(chain)
  \/ \E name \in SelectNames : CheckHealthCall(name)
  \/ \E name \in SelectNames, outcome \in ProbeOutcomes : CheckHealthReturn(name, outcome)
  \/ \E preferredName \in SelectNames \cup {None} : GetAdapterCall(preferredName)
  \/ \E outcome \in ProbeOutcomes : GetAdapterProbeReturn(outcome)
  \/ GetAdapterResume
  \/ TimerFire
  \/ StopHealthChecks
  \/ Dispose
  \/ Tick

Spec == Init /\ [][Next]_vars

\* new AdapterRegistry({ autoHealthCheck: false })
InitManual == Init /\ healthCheckTimer = NoTimer /\ variant = "rate-limiter.ts"

\* Selection: getAdapter with its own probes and the clock. The registry is
\* used cooperatively: the source set and the chain are changed between
\* getAdapter calls, not while one is suspended.
Quiescent == call.pc \in {"idle", "done"}

NextSelect ==
  \/ Quiescent /\ \E adapter \in SelectAdapters : Register(adapter)
  \/ Quiescent /\ \E name \in SelectNames : Unregister(name)
  \/ Quiescent /\ \E chain \in SelectChainArgs : SetFallbackChain(chain)
  \/ \E preferredName \in SelectNames \cup {None} : GetAdapterCall(preferredName)
  \/ \E outcome \in ProbeOutcomes : GetAdapterProbeReturn(outcome)
  \/ GetAdapterResume
  \/ Tick

SpecSelect == InitManual /\ [][NextSelect]_vars

\* getAdapter is not between isHealthy's answer and its own resumption: it is
\* idle, has returned, or is suspended awaiting a probe.
NotResuming == call.ready = None

\* getAdapter with register, unregister and dispose running while it is
\* suspended in `await adapter.healthCheck()`.
NextSuspended ==
  \/ NotResuming /\ \E adapter \in SelectAdapters : Register(adapter)
  \/ NotResuming /\ \E name \in SelectNames : Unregister(name)
  \/ NotResuming /\ Dispose
  \/ \E preferredName \in SelectNames \cup {None} : GetAdapterCall(preferredName)
  \/ \E outcome \in ProbeOutcomes : GetAdapterProbeReturn(outcome)
  \/ GetAdapterResume

SpecSuspended == InitManual /\ [][NextSuspended]_vars

\* Registration, the chain and the health map, over three names and both
\* adapter types, without getAdapter and without the clock.
\* The source set and the chain alone: the four operations that write them.
NextChain ==
  \/ \E adapter \in DataAdapters : Register(adapter)
  \/ \E name \in Names : Unregister(name)
  \/ \E chain \in ChainArgs : SetFallbackChain(chain)
  \/ Dispose

SpecChain == InitManual /\ [][NextChain]_vars

RegistryOutcomes == {"healthy", "rejects"}

NextRegistry ==
  \/ \E adapter \in DataAdapters : Register(adapter)
  \/ \E name \in Names : Unregister(name)
  \/ \E chain \in ChainArgs : SetFallbackChain(chain)
  \/ \E name \in Names : CheckHealthCall(name)
  \/ \E name \in Names, outcome \in RegistryOutcomes : CheckHealthReturn(name, outcome)
  \/ Dispose

SpecRegistry == InitManual /\ [][NextRegistry]_vars

\* new AdapterRegistry({ autoHealthCheck: true })
InitAuto == Init /\ healthCheckTimer = healthCheckInterval /\ variant = "rate-limiter.ts"

\* Automatic probing: the interval timer, its probes, and the operations that
\* stop it. There is no explicit checkHealth and no getAdapter call here, so
\* every probe and every health record comes from the timer.
NextTimer ==
  \/ \E adapter \in SelectAdapters : Register(adapter)
  \/ \E name \in SelectNames : Unregister(name)
  \/ \E name \in SelectNames, outcome \in RegistryOutcomes : CheckHealthReturn(name, outcome)
  \/ TimerFire
  \/ StopHealthChecks
  \/ Dispose
  \/ Tick

SpecTimer == InitAuto /\ [][NextTimer]_vars

\* One bucket of either class, its callers and the clock.
NextLimiter ==
  \/ \E c \in Callers, n \in 1..MaxAcquire : Acquire(c, n)
  \/ \E c \in Callers : AcquireResume(c)
  \/ \E n \in 1..MaxAcquire : IsReady(n)
  \/ Reset
  \/ Tick

\* new TokenBucketLimiter(Capacity), of either class
InitLimiter == Init /\ healthCheckTimer = NoTimer

SpecLimiter == InitLimiter /\ [][NextLimiter]_vars

\* One bucket of either class with its callers and the clock, never reset
\* and never asked for more than its capacity.
NextGrants ==
  \/ \E c \in Callers, n \in 1..Capacity : Acquire(c, n)
  \/ \E c \in Callers : AcquireResume(c)
  \/ Tick

SpecGrants == InitLimiter /\ [][NextGrants]_vars

\* One bucket used by a single caller, who calls acquire again only after
\* the previous call has returned.
NextBucket ==
  \/ \E tokensPerSecond \in Rates : NewBucket(tokensPerSecond)
  \/ \E n \in 1..DefaultRate, elapsed \in 0..MaxElapsedMs : BucketAcquire(n, elapsed)
  \/ \E late \in 0..MaxLateMs : BucketTimeout(late)

SpecBucket == InitManual /\ [][NextBucket]_vars

\* The data-fetch operations of the two sources, each source serving one
\* call at a time.
NextDataFetch ==
  \/ \E s \in DataSources : DataFetchCall(s)
  \/ \E known \in BOOLEAN : GetCIK(known)
  \/ \E response \in Responses, known \in BOOLEAN : LoadTickerMappingsReturn(response, known)
  \/ \E s \in DataSources : AcquireAndRequest(s)
  \/ \E s \in DataSources, response \in Responses : RequestReturn(s, response)
  \/ \E s \in DataSources : EntriesExpire(s)

SpecDataFetch == InitManual /\ [][NextDataFetch]_vars

\* One WorkerPool, its tasks, timers and worker events.
NextPool ==
  \/ \E minWorkers, maxWorkers \in 0..MaxWorkers : NewWorkerPool(minWorkers, maxWorkers)
  \/ Execute
  \/ \E w \in Workers, outcome \in {"resolved", "rejected"} : TaskCompletes(w, outcome)
  \/ \E w \in Workers : IdleTimeout(w)
  \/ \E w \in Workers : WorkerError(w)
  \/ Destroy

SpecPool == InitManual /\ [][NextPool]_vars

\* One OpenBBWebSocketClient, its sockets and its reconnection timers.
NextClient ==
  \/ \E endpoint \in Endpoints : Subscribe(endpoint)
  \/ \E i \in Sockets, endpoint \in Endpoints : SocketOpens(i, endpoint)
  \/ \E i \in Sockets : SocketCloses(i)
  \/ ReconnectTimer
  \/ Close

SpecClient == InitManual /\ [][NextClient]_vars

\* new MemoryCache(defaultTtlMs)
InitCache == Init /\ healthCheckTimer = NoTimer /\ variant = "rate-limiter.ts"

\* One cache (and its shadow) and the clock.
NextCache ==
  \/ \E key \in Keys : Get(key)
  \/ \E key \in Keys, value \in Values, ttlMs \in Ttls : Set(key, value, ttlMs)
  \/ \E key \in Keys : Has(key)
  \/ \E key \in Keys : Delete(key)
  \/ Clear
  \/ Cleanup
  \/ Tick

SpecCache == InitCache /\ [][NextCache]_vars

\* One instance of each source class, never yet probed.
InitProbe == Init /\ healthCheckTimer = NoTimer /\ variant = "rate-limiter.ts"

\* The instances share nothing, so one probe is followed at a time.
NoFetchPending == \A class \in SourceClasses : fetch[class].pc = "idle"

NextProbe ==
  \/ NoFetchPending /\ \E class \in SourceClasses : HealthCheckCall(class)
  \/ \E class \in SourceClasses, response \in Responses : HealthCheckReturn(class, response)
  \/ \E class \in SourceClasses : HealthCheckAbort(class)
  \/ Tick

SpecProbe == InitProbe /\ [][NextProbe]_vars

----------------------------------------------------------------------------
(* Properties of registration and the fallback chain (SpecChain, and       *)
(* SpecRegistry where the health map is involved)                          *)

Registered == DOMAIN adapters

\* s with every occurrence of e taken out, the other entries in their order
RECURSIVE Without(_, _)
Without(s, e) ==
  IF s = <<>> THEN <<>>
  ELSE IF Head(s) = e THEN Without(Tail(s), e)
  ELSE <<Head(s)>> \o Without(Tail(s), e)

\* C1: register(source) with a name that is already registered throws and
\* leaves the source set, the fallback chain and the health map as they were.
C1_DuplicateRegisterRejected ==
  [][\A adapter \in DataAdapters :
       (last'.op = "register" /\ adapter.name \in Registered /\ Register(adapter))
         => /\ last'.ret = "throw"
            /\ adapters' = adapters
            /\ fallbackChain' = fallbackChain
            /\ healthCache' = healthCache]_vars

C1_Witness ==
  /\ last = Done("register", "throw")
  /\ Cardinality(Registered) >= 2
  /\ Len(fallbackChain) >= 2
  /\ DOMAIN healthCache # {}

\* C2: setFallbackChain(names) with a name that is not registered throws and
\* leaves the chain as it was; with every name registered the chain becomes
\* exactly names.
C2_SetFallbackChainAtomic ==
  [][\A chain \in ChainArgs :
       (last'.op = "setFallbackChain" /\ SetFallbackChain(chain))
         => IF \A i \in 1..Len(chain) : chain[i] \in Registered
            THEN last'.ret = "ok" /\ fallbackChain' = chain
            ELSE last'.ret = "throw" /\ fallbackChain' = fallbackChain]_vars

C2_Witness ==
  /\ last = Done("setFallbackChain", "throw")
  /\ Len(fallbackChain) >= 2
  /\ Cardinality(Registered) = 2

\* C7: every name in the fallback chain is a registered source.
C7_ChainNamesRegistered ==
  \A i \in 1..Len(fallbackChain) : fallbackChain[i] \in Registered

C7_Witness ==
  /\ last = Done("unregister", "true")
  /\ Len(fallbackChain) >= 1
  /\ Cardinality(Registered) < 3

\* C8: the fallback chain contains no name more than once.
C8_ChainHasNoDuplicates ==
  \A i, j \in 1..Len(fallbackChain) :
    i # j => fallbackChain[i] # fallbackChain[j]

\* C9: a successful register(source) puts the name at the end of the chain for
\* a built-in source and at the front for an optional one, the names already
\* in the chain keeping their order.
C9_RegisterPlacement ==
  [][\A adapter \in DataAdapters :
       (last'.op = "register" /\ adapter.name \notin Registered /\ Register(adapter))
         => /\ last'.ret = "ok"
            /\ adapters'[adapter.name] = adapter
            /\ fallbackChain' = IF adapter.type = "built-in"
                                THEN fallbackChain \o <<adapter.name>>
                                ELSE <<adapter.name>> \o fallbackChain]_vars

C9_Witness ==
  /\ last = Done("register", "ok")
  /\ Len(fallbackChain) = 3
  /\ adapters[fallbackChain[1]].type = "optional"
  /\ adapters[fallbackChain[3]].type = "built-in"

\* C10: unregister(name) returns true exactly when name was registered; then
\* name is in neither the source set, the chain nor the health map, and the
\* entries and the chain order of the other sources are unchanged; when it
\* returns false nothing changes.
C10_UnregisterFrame ==
  [][\A name \in Names :
       (last'.op = "unregister" /\ Unregister(name))
         => IF name \in Registered
            THEN /\ last'.ret = "true"
                 /\ DOMAIN adapters' = Registered \ {name}
                 /\ \A n \in DOMAIN adapters' : adapters'[n] = adapters[n]
                 /\ DOMAIN healthCache' = (DOMAIN healthCache) \ {name}
                 /\ \A n \in DOMAIN healthCache' : healthCache'[n] = healthCache[n]
                 /\ fallbackChain' = Without(fallbackChain, name)
            ELSE /\ last'.ret = "false"
                 /\ adapters' = adapters
                 /\ healthCache' = healthCache
                 /\ fallbackChain' = fallbackChain]_vars

C10_Witness ==
  /\ last = Done("unregister", "true")
  /\ Len(fallbackChain) >= 2
  /\ Cardinality(Registered) = 2
  /\ DOMAIN healthCache # {}

----------------------------------------------------------------------------
(* Properties of getAdapter (SpecSelect). A frame with pc = "done" exists in *)
(* the state in which the call returns, so fallbackChain, adapters and      *)
(* healthCache are there the ones the call returned on.                     *)

Returned == call.pc = "done"

OkStatus(status) == status \in {"healthy", "degraded"}

\* the evaluations of the chain walk, without the one of the preferred source
ChainEvals == SelectSeq(call.evals, LAMBDA e : e.stage = "chain")

\* the call returned the preferred source straight away
PreferredTaken ==
  /\ call.evals # <<>>
  /\ call.evals[1].stage = "preferred"
  /\ OkStatus(call.evals[1].status)

\* the first k chain entries are what the walk evaluated, all but possibly the
\* last as not selectable
WalkedPrefix(k) ==
  /\ Len(ChainEvals) = k
  /\ k <= Len(fallbackChain)
  /\ \A j \in 1..k : ChainEvals[j].name = fallbackChain[j]
  /\ \A j \in 1..(k - 1) : ~OkStatus(ChainEvals[j].status)

\* C3: unless the preferred source is taken, getAdapter returns the earliest
\* source of the fallback chain whose health is healthy or degraded, having
\* evaluated every chain entry before it as not selectable (and when it
\* fails with UNAVAILABLE it has evaluated every chain entry so).
C3_EarliestSelectableInChain ==
  (Returned /\ call.stable /\ ~PreferredTaken) =>
    /\ call.result = "adapter" =>
         LET k == Len(ChainEvals)
         IN /\ k >= 1
            /\ WalkedPrefix(k)
            /\ OkStatus(ChainEvals[k].status)
            /\ fallbackChain[k] \in Registered
            /\ call.returned = adapters[fallbackChain[k]]
    /\ call.result = "UNAVAILABLE" =>
         /\ WalkedPrefix(Len(fallbackChain))
         /\ \A j \in 1..Len(ChainEvals) : ~OkStatus(ChainEvals[j].status)

C3_Witness ==
  /\ Returned
  /\ call.result = "adapter"
  /\ call.preferred # None
  /\ call.evals[1].stage = "preferred"
  /\ call.evals[1].status = "unavailable"
  /\ Len(ChainEvals) = 2
  /\ call.returned.name # call.preferred

\* C4: getAdapter(preferredName) returns the preferred source whenever it is
\* registered and evaluates as healthy or degraded, in the chain or not; a
\* preferred source it returns was evaluated as healthy or degraded, never as
\* unavailable.
C4_PreferredWinsIfSelectable ==
  Returned =>
    /\ (call.adapter # NoAdapter /\ OkStatus(call.evals[1].status)) =>
         /\ call.result = "adapter"
         /\ call.returned = call.adapter
         /\ call.returned.name = call.preferred
    /\ (call.result = "adapter" /\ call.returned.name = call.preferred) =>
         LET e == call.evals[Len(call.evals)]
         IN e.name = call.preferred /\ OkStatus(e.status)

C4_Witness ==
  /\ Returned
  /\ call.result = "adapter"
  /\ call.preferred = "b"
  /\ call.returned.name = "b"
  /\ call.evals[1].status = "degraded"
  /\ fallbackChain = <<"a">>

\* C5: when every source getAdapter evaluates is unavailable, and when no
\* source is registered, getAdapter returns no source and fails with the
\* AdapterError code UNAVAILABLE.
C5_AllUnavailableFails ==
  Returned =>
    /\ (\A i \in 1..Len(call.evals) : call.evals[i].status = "unavailable") =>
         (call.result = "UNAVAILABLE" /\ call.returned = NoAdapter)
    /\ Registered = {} => (call.result = "UNAVAILABLE" /\ call.returned = NoAdapter)

C5_Witness ==
  /\ Returned
  /\ call.result = "UNAVAILABLE"
  /\ Cardinality(Registered) = 2
  /\ Len(call.evals) >= 2
  /\ \A i \in 1..Len(call.evals) : call.evals[i].status = "unavailable"
  /\ \A n \in Registered : n \in DOMAIN healthCache /\ healthCache[n].status = "unavailable"

\* the health map holds a record of n that isHealthy would trust now
FreshRecord(n) ==
  /\ n \in DOMAIN healthCache
  /\ healthCache[n].lastChecked # NoDate
  /\ now - healthCache[n].lastChecked < healthCheckInterval
  /\ healthCache[n].status \in HealthStatus

DegradedReturned ==
  /\ call.result = "adapter"
  /\ call.returned.name \in DOMAIN healthCache
  /\ healthCache[call.returned.name].status = "degraded"

\* C6 as stated: if at least one registered source is degraded and no
\* registered source is healthy, getAdapter() returns a degraded source.
C6_DegradedRegisteredIsReturned ==
  ( /\ Returned /\ call.preferred = None
    /\ \A n \in Registered : FreshRecord(n)
    /\ \E n \in Registered : healthCache[n].status = "degraded"
    /\ \A n \in Registered : healthCache[n].status # "healthy" )
  => DegradedReturned

ChainNames == {fallbackChain[i] : i \in 1..Len(fallbackChain)}

\* C6, amended: if at least one source in the fallback chain is degraded and
\* no source in the chain is healthy, getAdapter() returns a degraded source.
C6_DegradedInChainIsReturned ==
  ( /\ Returned /\ call.preferred = None /\ call.stable
    /\ \A n \in ChainNames : FreshRecord(n)
    /\ \E n \in ChainNames : healthCache[n].status = "degraded"
    /\ \A n \in ChainNames : healthCache[n].status # "healthy" )
  => (DegradedReturned /\ call.returned.name \in ChainNames)

C6_Witness ==
  /\ Returned /\ call.preferred = None
  /\ DegradedReturned
  /\ Len(fallbackChain) = 2
  /\ call.returned.name = fallbackChain[2]
  /\ FreshRecord(fallbackChain[1])
  /\ healthCache[fallbackChain[1]].status = "unavailable"
  /\ Len(call.evals) = 2

----------------------------------------------------------------------------
(* Properties of health probing and disposal (SpecRegistry, SpecSelect,    *)
(* SpecTimer)                                                               *)

C12_OnlyUnavailableEscapes ==
  Returned => call.result \in {"adapter", "UNAVAILABLE"}

\* C13: when checkHealth(name) completes for a registered source, the health
\* map holds for name the record it returned, replacing an earlier one, and
\* every other record is unchanged, also with other probes in flight.
C13_ProbeWritesOwnSlot ==
  [][\A name \in Names, outcome \in RegistryOutcomes :
       (/\ last'.op = "checkHealthReturn"
        /\ name \in Registered
        /\ CheckHealthReturn(name, outcome))
         => /\ name \in DOMAIN healthCache'
            /\ healthCache'[name] = ProbeRecord(outcome)
            /\ last'.ret = healthCache'[name].status
            /\ DOMAIN healthCache' = DOMAIN healthCache \cup {name}
            /\ \A n \in DOMAIN healthCache \ {name} :
                 healthCache'[n] = healthCache[n]]_vars

C13_Witness ==
  /\ last = Done("checkHealthReturn", "unavailable")
  /\ probing # {}
  /\ \E n, m \in Registered :
       /\ n # m
       /\ n \in DOMAIN healthCache /\ healthCache[n].status = "unavailable"
       /\ m \in DOMAIN healthCache /\ healthCache[m].status = "healthy"

\* C14: immediately after dispose() the source set, the health map and the
\* fallback chain are all empty.
C14_EmptyAfterDispose ==
  last.op = "dispose"
    => (adapters = EmptyMap /\ healthCache = EmptyMap /\ fallbackChain = <<>>)

C14_Witness ==
  /\ last.op = "dispose"
  /\ Cardinality(probing) = 2

\* C15: dispose() is terminal: the step after it leaves the source set, the
\* chain and the health map empty.
C15_DisposeIsTerminal ==
  [][last.op = "dispose"
       => (adapters' = EmptyMap /\ fallbackChain' = <<>> /\ healthCache' = EmptyMap)]_vars

\* C16: stopHealthChecks() and dispose() clear the timer, and once it is
\* cleared it stays cleared, never fires, and no probe is started.
C16_NoTimerAfterStop ==
  [][/\ last'.op \in {"stopHealthChecks", "dispose"} => healthCheckTimer' = NoTimer
     /\ healthCheckTimer = NoTimer
          => /\ healthCheckTimer' = NoTimer
             /\ last'.op # "timer"
             /\ probing' \subseteq probing]_vars

C16_Witness ==
  /\ healthCheckTimer = NoTimer
  /\ now >= healthCheckInterval
  /\ last.op = "tick"
  /\ Registered # {}

\* C17: with automatic probing on, when the first healthCheckInterval has
\* elapsed every registered source has been probed automatically.
C17_ProbedBeforeFirstInterval ==
  [][(/\ last'.op = "tick"
      /\ now' = healthCheckInterval
      /\ healthCheckTimer # NoTimer)
       => \A n \in Registered : n \in probing \/ n \in DOMAIN healthCache]_vars

----------------------------------------------------------------------------
(* Properties of the token bucket (SpecLimiter)                            *)

\* C18: the token count never goes negative, for every interleaving of
\* acquire calls on one bucket and every requested n.
C18_TokensNeverNegative ==
  tokens >= 0

\* C19: the token count is at most capacity in every state, whatever time
\* elapses between operations, and isReady(n) with n above capacity is false.
C19_NeverAboveCapacity ==
  [][/\ tokens <= Capacity
     /\ tokens' <= Capacity
     /\ \A n \in 1..MaxAcquire :
          (last'.op = "isReady" /\ n > Capacity /\ IsReady(n)) => last'.ret = "false"]_vars

C19_Witness ==
  /\ last = Done("isReady", "false")
  /\ tokens = Capacity
  /\ lastRefill = now
  /\ now >= 1

\* C20: every suspended acquire completes once enough time has passed: a
\* caller suspended in its wait always has a timeout that will resume it.
C20_SuspendedAcquireCompletes ==
  \A c \in Callers : waiters[c].pc = "waiting" => waiters[c].armed

\* what a refill at time t would leave in the bucket
Available(t) == Min(Capacity, tokens + (t - lastRefill))

\* C21: token accounting: an acquire that returns at once takes exactly n
\* from the refilled count; the refilled count after an idle time is
\* min(capacity, previous + elapsed * rate), and isReady(m) is true exactly
\* when it is at least m; reset() makes the count capacity at once.
C21_TokenAccounting ==
  [][/\ \A c \in Callers, n \in 1..MaxAcquire :
          (last'.op = "acquire" /\ last'.ret = "ok" /\ Acquire(c, n))
            => tokens' = Min(Capacity, tokens + (now - lastRefill)) - n
     /\ \A m \in 1..MaxAcquire :
          (last'.op = "isReady" /\ IsReady(m))
            => ((last'.ret = "true") <=> (Min(Capacity, tokens + (now - lastRefill)) >= m))
     /\ last'.op = "reset" => tokens' = Capacity]_vars

C21_Witness ==
  /\ last = Done("isReady", "false")
  /\ now = 0
  /\ tokens = Capacity - 1
  /\ \A c \in Callers : waiters[c].pc = "idle"

\* C22: isReady(n) never suspends and never consumes tokens: it answers true
\* exactly when the refilled count is at least n, and what a later refill
\* finds at any time is what it would have found without the call.
C22_IsReadyIsPure ==
  [][\A n \in 1..MaxAcquire :
       (last'.op = "isReady" /\ IsReady(n))
         => /\ (last'.ret = "true") <=> (Available(now) >= n)
            /\ waiters' = waiters
            /\ timerRef' = timerRef
            /\ \A t \in now..MaxTime : Available(t)' = Available(t)]_vars

C22_Witness ==
  /\ last = Done("isReady", "true")
  /\ now >= 1
  /\ lastRefill = now
  /\ tokens >= 1
  /\ tokens < Capacity

----------------------------------------------------------------------------
(* Properties of the TTL cache (SpecCache)                                 *)

\* C23: get(key) returns the stored value and has(key) returns true exactly
\* when an entry for key exists and now <= expiresAt; otherwise both report a
\* miss, and an expired entry is removed.
C23_ReadsRespectExpiry ==
  [][\A key \in Keys :
       /\ (last'.op = "get" /\ Get(key))
            => IF key \in DOMAIN cache /\ now <= cache[key].expiresAt
               THEN last'.ret = cache[key].value /\ cache' = cache
               ELSE /\ last'.ret = "null"
                    /\ cache' = MapDelete(cache, key)
       /\ (last'.op = "has" /\ Has(key))
            => IF key \in DOMAIN cache /\ now <= cache[key].expiresAt
               THEN last'.ret = "true" /\ cache' = cache
               ELSE /\ last'.ret = "false"
                    /\ cache' = MapDelete(cache, key)]_vars

C23_Witness ==
  /\ last = Done("get", "null")
  /\ Size = 1
  /\ \E key \in DOMAIN cache : Expired(cache, key)

\* C24: set(key, value, ttl) stores value with expiry now + ttl (the default
\* TTL when none is given), replacing value and expiry of an earlier entry;
\* an entry then stays as it is until a set, delete or clear on it or until
\* it has expired, and get returns its value exactly while now <= expiresAt.
C24_SetGovernsExpiry ==
  [][/\ \A key \in Keys, value \in Values, ttlMs \in Ttls :
          (last'.op = "set" /\ Set(key, value, ttlMs))
            => /\ key \in DOMAIN cache'
               /\ cache'[key] = [value |-> value,
                                 expiresAt |-> now + (IF ttlMs = NoTtl THEN defaultTtlMs
                                                                       ELSE ttlMs)]
               /\ \A k \in DOMAIN cache \ {key} :
                    k \in DOMAIN cache' /\ cache'[k] = cache[k]
     /\ \A key \in DOMAIN cache :
          last'.op # "set"
            => /\ key \in DOMAIN cache' => cache'[key] = cache[key]
               /\ key \notin DOMAIN cache'
                    => (last'.op \in {"delete", "clear"} \/ now > cache[key].expiresAt)
     /\ \A key \in DOMAIN cache :
          (last'.op = "get" /\ Get(key))
            => ((last'.ret = cache[key].value) <=> (now <= cache[key].expiresAt))]_vars

C24_Witness ==
  /\ last.op = "get"
  /\ now >= 1
  /\ \E key \in DOMAIN cache :
       /\ cache[key].value = last.ret
       /\ cache[key].expiresAt = now

\* C25: the passage of time alone never changes size(): an expired entry is
\* counted until a get, has, cleanup, delete or clear removes it, and size()
\* is the number of stored entries.
C25_SizeIgnoresTime ==
  [][/\ last'.op = "tick" => Size' = Size
     /\ Size' < Size => last'.op \in {"get", "has", "cleanup", "delete", "clear"}
     /\ Size = Cardinality(DOMAIN cache)]_vars

C25_Witness ==
  /\ last.op = "tick"
  /\ Size = 2
  /\ \E key \in DOMAIN cache : Expired(cache, key)

\* C26: cleanup() is not observable through reads: get and has answer the
\* same on the cache as on the cache that never received a cleanup() call.
C26_CleanupNotObservable ==
  \A key \in Keys :
    /\ GetResult(cache, key) = GetResult(shadow, key)
    /\ HasResult(cache, key) = HasResult(shadow, key)

C26_Witness ==
  /\ last.op \in {"get", "has"}
  /\ cache # shadow

\* C27: cleanup() removes exactly the entries with now > expiresAt and leaves
\* every other entry, with its value and expiry, unchanged.
C27_CleanupRemovesExpiredOnly ==
  [][last'.op = "cleanup"
       => /\ DOMAIN cache' = {k \in DOMAIN cache : ~(now > cache[k].expiresAt)}
          /\ \A k \in DOMAIN cache' : cache'[k] = cache[k]]_vars

C27_Witness ==
  /\ last.op = "cleanup"
  /\ Cardinality(DOMAIN shadow) = 2
  /\ Size = 1
  /\ \E key \in DOMAIN cache : cache[key].expiresAt = now

----------------------------------------------------------------------------
(* Properties of the sources' probes (SpecProbe) and of probing during     *)
(* selection (SpecSelect)                                                  *)

\* C28: healthCheck() of every source class returns a record whose status is
\* healthy, degraded or unavailable, and after a rejected or timed-out fetch
\* the status is unavailable and the error is populated.
C28_HealthCheckRecordIsValid ==
  \A class \in SourceClasses :
    fetch[class].response # None
      => /\ fetch[class].record.status \in HealthStatus
         /\ fetch[class].response \in {"rejects", "abort"}
              => /\ fetch[class].record.status = "unavailable"
                 /\ fetch[class].record.error # None

\* C29: a probe that never responds is not left pending: every pending
\* healthCheck() has a timeout that ends it.
C29_PendingProbeHasTimeout ==
  \A class \in SourceClasses : fetch[class].pc = "pending" => fetch[class].abort

\* C30: during getAdapter a source is probed exactly when it has no cached
\* record or its record's age is at least healthCheckInterval; a younger
\* record decides from its cached status without a probe, and a source
\* cached as unavailable is not returned while that record is fresh.
C30_ProbeOnlyWhenStale ==
  [][(last'.op = "getAdapter" /\ call'.pc \in {"preferred", "chain"})
       => LET n == call'.name
              stale == \/ n \notin DOMAIN healthCache
                       \/ /\ healthCache[n].lastChecked # NoDate
                          /\ now - healthCache[n].lastChecked >= healthCheckInterval
              fresh == /\ n \in DOMAIN healthCache
                       /\ healthCache[n].lastChecked # NoDate
                       /\ now - healthCache[n].lastChecked < healthCheckInterval
          IN /\ call'.awaiting # None => (call'.awaiting = n /\ stale)
             /\ (stale /\ n \in Registered) => call'.awaiting = n
             /\ fresh => /\ call'.awaiting = None
                         /\ call'.ready = healthCache[n].status]_vars

C30_Witness ==
  /\ last.op = "getAdapter"
  /\ call.pc = "chain"
  /\ call.awaiting = None
  /\ call.ready = "unavailable"
  /\ FreshRecord(call.name)
  /\ healthCache[call.name].status = "unavailable"
  /\ now - healthCache[call.name].lastChecked >= 1

----------------------------------------------------------------------------
(* delete on the TTL cache (SpecCache)                                     *)

\* C37: delete(key) returns true exactly when an entry for key is physically
\* stored, expired or not (has(key) may answer false for it); it returns
\* false only when nothing is stored, and afterwards the key is absent.
C37_DeleteReportsStoredEntry ==
  [][\A key \in Keys :
       (last'.op = "delete" /\ Delete(key))
         => /\ last'.ret = "true" <=> key \in DOMAIN cache
            /\ last'.ret = "false" <=> key \notin DOMAIN cache
            /\ (key \in DOMAIN cache /\ Expired(cache, key))
                 => HasResult(cache, key) = "false" /\ last'.ret = "true"
            /\ key \notin DOMAIN cache'
            /\ \A k \in Keys \ {key} :
                 /\ k \in DOMAIN cache' <=> k \in DOMAIN cache
                 /\ k \in DOMAIN cache => cache'[k] = cache[k]]_vars

\* a delete has answered true while an expired entry is still stored
C37_Witness ==
  /\ last = Done("delete", "true")
  /\ \E key \in DOMAIN cache : Expired(cache, key) /\ HasResult(cache, key) = "false"

----------------------------------------------------------------------------
(* The health map and the source set under concurrent use (SpecRegistry)   *)

\* C35: in every reachable state, also with probes in flight while
\* unregister or dispose runs, every key of the health map is a currently
\* registered source.
C35_HealthKeysAreRegistered ==
  \A name \in DOMAIN healthCache : name \in Registered

\* C36: every source returned by getAdapter is registered at the moment
\* getAdapter returns, also when unregister or dispose ran while getAdapter
\* was suspended awaiting a probe.
C36_ReturnedIsRegistered ==
  (Returned /\ call.result = "adapter")
    => /\ call.returned.name \in Registered
       /\ adapters[call.returned.name] = call.returned

\* a step writes the health map only if it is a completing probe; register
\* and setFallbackChain leave the map as it is (unregister and dispose remove)
OnlyProbesWriteHealth ==
  /\ last'.op \in {"register", "setFallbackChain"} => healthCache' = healthCache
  /\ \A name \in Names :
       (/\ name \in DOMAIN healthCache'
        /\ name \in DOMAIN healthCache => healthCache'[name] # healthCache[name])
         => last'.op \in {"checkHealthReturn", "getAdapterProbe"}

\* a source just registered has no health record
NoRecordAtRegistration ==
  \A adapter \in DataAdapters :
    (last'.op = "register" /\ last'.ret = "ok" /\ Register(adapter))
      => adapter.name \notin DOMAIN healthCache'

\* C31: a source has no health record from registration until its first
\* completed probe, and its health status changes only when a probe of it
\* completes; register, setFallbackChain and the getters leave the health
\* map unchanged.
C31_HealthRecordLifecycle ==
  [][NoRecordAtRegistration /\ OnlyProbesWriteHealth]_vars

----------------------------------------------------------------------------
(* acquire by a single caller (SpecBucket)                                 *)

\* C32: for a single caller and n <= capacity, acquire(n) deducts at once
\* when it finds n tokens; otherwise it suspends for (n - tokens) /
\* tokensPerSecond seconds, after which the refill has produced at least n
\* tokens, so the deduction leaves a non-negative count.
C32_SingleCallerNeverNegative ==
  bucket.tokens >= 0

----------------------------------------------------------------------------
(* The rate-limit guarantee (SpecGrants)                                   *)

\* C33: over any time window of length T the tokens granted by completed
\* acquire calls on one bucket are at most capacity + tokensPerSecond * T,
\* also with many concurrent callers; here for the window that starts when
\* the bucket is created (one token is refilled per clock tick).
C33_GrantedWithinRate ==
  granted <= Capacity + now

----------------------------------------------------------------------------
(* Cache first, then a token for every request (SpecDataFetch)             *)

\* C34: every data-fetch operation of a source that holds a limiter and a
\* cache consults the cache first and, on a miss, acquires a token from the
\* source's own limiter before each external request it issues; a cache hit
\* performs no token acquisition and no external request.
C34_TokenBeforeEveryRequest ==
  \A s \in DataSources :
    /\ dataFetch[s].requests <= dataFetch[s].acquired
    /\ (dataFetch[s].requests > 0 \/ dataFetch[s].acquired > 0)
         => dataFetch[s].consulted /\ ~dataFetch[s].hit
    /\ dataFetch[s].hit => dataFetch[s].acquired = 0 /\ dataFetch[s].requests = 0

----------------------------------------------------------------------------
(* The worker pool (SpecPool)                                              *)

\* C38: between construction and destroy(), a pool configured with
\* minWorkers <= maxWorkers holds at least minWorkers and at most maxWorkers
\* workers.
C38_PoolSizeWithinConfig ==
  pool.pc = "live"
    => /\ Len(pool.workers) >= pool.minWorkers
       /\ Len(pool.workers) <= pool.maxWorkers

\* task t waits in the queue or runs on a worker
InQueue(t) == t \in Range(pool.queue)
IsRunning(t) == \E w \in Workers : pool.running[w] = t

\* C39: every promise returned by execute() eventually settles provided
\* every started task completes: a pending promise belongs to a task that is
\* running or waits in the queue, and the queue is served in submission
\* order when a worker is returned.
C39_PendingIsRunningOrQueued ==
  \A t \in Tasks : pool.promise[t] = "pending" => InQueue(t) \/ IsRunning(t)

\* the queue holds pending tasks in submission order, each once
QueueInSubmissionOrder ==
  \A i, j \in 1..Len(pool.queue) : i < j => pool.queue[i] < pool.queue[j]

----------------------------------------------------------------------------
(* The WebSocket client after close() (SpecClient)                         *)

\* C40: after close() the client stays disconnected: until subscribe is
\* called again no reconnection attempt is scheduled and no new WebSocket
\* is opened.
C40_StaysDisconnectedAfterClose ==
  [][(client.afterClose /\ client'.afterClose)
       => /\ client'.timers <= client.timers
          /\ client'.created = client.created
          /\ client'.ws = NoSocket]_vars

====
